---- MODULE Spec2Model ----
(***************************************************************************)
(* Model of the blogicum request handlers (blog/views.py) and of the form  *)
(* validation they rely on (blog/forms.py).                                *)
(*                                                                         *)
(* The persistent store is the state: users, categories, posts, comments   *)
(* and the two primary-key sequences.  Every view is an operator that      *)
(* takes the request (requester, method, URL arguments, submitted form)    *)
(* and yields the response outcome together with the store it leaves; the  *)
(* action of the same name applies it to the store.  The server clock is   *)
(* an input of each request that reads timezone.now().                     *)
(***************************************************************************)
EXTENDS Integers, FiniteSets, TLC

\* ---------------------------------------------------------------- bounds
MaxUsers == 2
MaxCategories == 1
MaxPosts == 2
MaxComments == 1
MaxTime == 1

\* ---------------------------------------------------------------- values
\* the value of a foreign key that is NULL
None == 0
\* request.user of a request without a session (AnonymousUser)
Anon == 0

UserIds == 1..MaxUsers
PostIds == 1..MaxPosts
CommentIds == 1..MaxComments
\* an id no sequence ever hands out: the lookup of a row that never existed
AbsentId == 0

Time == 0..MaxTime
\* a pub_date text none of the input formats parses
BadDate == -1

\* a category is named by its slug
Slugs == 1..MaxCategories
\* a slug no category carries
UnknownSlug == MaxCategories + 1

Names == {"a", "b"}
Passwords == {"p", "q"}
Methods == {"GET", "POST"}

VARIABLES
    users,          \* id -> [username]
    categories,     \* slug -> [is_published]
    posts,          \* id -> [author, is_published, category, pub_date]
    comments,       \* id -> [post, author, text]
    nextPostId,     \* primary-key sequence of Post
    nextCommentId,  \* primary-key sequence of Comment
    creator,        \* history: post id -> requester of the creating request
    orphaned        \* history: posts whose category row was deleted

vars == <<users, categories, posts, comments, nextPostId, nextCommentId,
          creator, orphaned>>

\* ----------------------------------------------------------------- forms
\* PostForm.Meta.fields: author is not among them, so a submitted author
\* value is carried by the request and never read.  title, text, location
\* and image are plain values no handler branches on; pub_date and category
\* stand for the editable columns.
PostForms == [pub_date : Time \cup {BadDate},
              category : Slugs \cup {None, UnknownSlug},
              author   : UserIds]

\* pub_date must parse with one of the input formats; category must be a
\* row of Category or left empty
PostForm_is_valid(form) ==
    /\ form.pub_date \in Time
    /\ form.category \in (DOMAIN categories) \cup {None}

CommentTexts == {"", "x", "y"}

CommentForm_is_valid(text) == text # ""

RegistrationForms == [username : Names \cup {""},
                      password1 : Passwords,
                      password2 : Passwords]

UsernameTaken(name, except) ==
    \E u \in DOMAIN users : u # except /\ users[u].username = name

UserRegistrationForm_is_valid(form) ==
    /\ form.username # ""
    /\ ~UsernameTaken(form.username, Anon)
    /\ form.password1 = form.password2

UserEditForm_is_valid(u, name) ==
    /\ name # ""
    /\ ~UsernameTaken(name, u)

\* ------------------------------------------------------------- responses
Store(p, c, u, np, nc) ==
    [posts |-> p, comments |-> c, users |-> u,
     nextPostId |-> np, nextCommentId |-> nc]

Response(outcome, store) == [outcome |-> outcome, store |-> store]

Current == Store(posts, comments, users, nextPostId, nextCommentId)

\* a response that leaves the store as it found it
Only(outcome) == Response(outcome, Current)

is_authenticated(u) == u # Anon

Without(f, k) == [i \in (DOMAIN f) \ {k} |-> f[i]]

With(f, k, v) == [i \in (DOMAIN f) \cup {k} |-> IF i = k THEN v ELSE f[i]]

\* ------------------------------------------------------------ read views
\* mutant: the filter looks at the foreign key only, not at the flag
category__is_published_AnyCategory(p) ==
    posts[p].category # None

\* category__is_published=True: the join drops a post that has no category
category__is_published(p) ==
    /\ posts[p].category # None
    /\ categories[posts[p].category].is_published

\* mutant: the filter without pub_date__lte
index_filter_NoDate(now) ==
    {p \in DOMAIN posts : /\ posts[p].is_published
                          /\ category__is_published(p)}

\* index: filter(...).exclude(category__isnull=True); the page is the set
\* of posts the queryset holds
index_filter(now) ==
    {p \in DOMAIN posts : /\ posts[p].is_published
                          /\ category__is_published(p)
                          /\ posts[p].pub_date <= now}

index(now) ==
    [outcome |-> "render_index",
     page |-> index_filter(now) \ {p \in DOMAIN posts : posts[p].category = None}]

\* post_detail: the two flags computed after the lookup
is_author(u, p) == is_authenticated(u) /\ u = posts[p].author

\* mutant: the flag computed without the category
is_published_NoCategory(p, now) ==
    /\ posts[p].is_published
    /\ posts[p].pub_date <= now

is_published(p, now) ==
    /\ posts[p].is_published
    /\ (posts[p].category = None \/ categories[posts[p].category].is_published)
    /\ posts[p].pub_date <= now

\* mutant: a hidden post answered with a redirect to the home feed
post_detail_Redirect(u, id, now) ==
    IF id \notin DOMAIN posts
    THEN [outcome |-> "not_found", post |-> AbsentId, comments |-> {}]
    ELSE IF ~is_published(id, now) /\ ~is_author(u, id)
    THEN [outcome |-> "redirect_index", post |-> AbsentId, comments |-> {}]
    ELSE [outcome |-> "render_detail", post |-> id,
          comments |-> {c \in DOMAIN comments : comments[c].post = id}]

post_detail(u, id, now) ==
    IF id \notin DOMAIN posts
    THEN [outcome |-> "not_found", post |-> AbsentId, comments |-> {}]
    ELSE IF ~is_published(id, now) /\ ~is_author(u, id)
    THEN [outcome |-> "not_found", post |-> AbsentId, comments |-> {}]
    ELSE [outcome |-> "render_detail", post |-> id,
          comments |-> {c \in DOMAIN comments : comments[c].post = id}]

\* mutant: the category looked up by slug alone
category_posts_AnyCategory(category_slug, now) ==
    IF category_slug \notin DOMAIN categories
    THEN [outcome |-> "not_found", page |-> {}]
    ELSE [outcome |-> "render_category",
          page |-> {p \in DOMAIN posts : /\ posts[p].category = category_slug
                                         /\ posts[p].is_published
                                         /\ posts[p].pub_date <= now}]

category_posts(category_slug, now) ==
    IF ~(category_slug \in DOMAIN categories /\ categories[category_slug].is_published)
    THEN [outcome |-> "not_found", page |-> {}]
    ELSE [outcome |-> "render_category",
          page |-> {p \in DOMAIN posts : /\ posts[p].category = category_slug
                                         /\ posts[p].is_published
                                         /\ posts[p].pub_date <= now}]

profile(username) ==
    IF ~UsernameTaken(username, Anon)
    THEN [outcome |-> "not_found", page |-> {}]
    ELSE [outcome |-> "render_profile",
          page |-> {p \in DOMAIN posts : users[posts[p].author].username = username}]

\* ----------------------------------------------------------- write views
edit_profile(u, method, username) ==
    IF ~is_authenticated(u) THEN Only("login_required")
    ELSE IF method = "POST" /\ UserEditForm_is_valid(u, username)
    THEN Response("redirect_profile",
                  Store(posts, comments, With(users, u, [username |-> username]),
                        nextPostId, nextCommentId))
    ELSE Only("render_form")

\* mutant: the author taken from the submitted form
post_create_FormAuthor(u, method, form, default_published) ==
    IF ~is_authenticated(u) THEN Only("login_required")
    ELSE IF method = "POST" /\ PostForm_is_valid(form)
    THEN Response("redirect_profile",
                  Store(With(posts, nextPostId,
                             [author |-> form.author,
                              is_published |-> default_published,
                              category |-> form.category,
                              pub_date |-> form.pub_date]),
                        comments, users, nextPostId + 1, nextCommentId))
    ELSE Only("render_form")

\* default_published: the value the Post model gives is_published, which
\* the form does not carry
post_create(u, method, form, default_published) ==
    IF ~is_authenticated(u) THEN Only("login_required")
    ELSE IF method = "POST" /\ PostForm_is_valid(form)
    THEN Response("redirect_profile",
                  Store(With(posts, nextPostId,
                             [author |-> u,
                              is_published |-> default_published,
                              category |-> form.category,
                              pub_date |-> form.pub_date]),
                        comments, users, nextPostId + 1, nextCommentId))
    ELSE Only("render_form")

post_edit(u, post_id, method, form) ==
    IF ~is_authenticated(u) THEN Only("login_required")
    ELSE IF post_id \notin DOMAIN posts THEN Only("not_found")
    ELSE IF posts[post_id].author # u THEN Only("redirect_detail")
    ELSE IF method = "POST" /\ PostForm_is_valid(form)
    THEN Response("redirect_detail",
                  Store(With(posts, post_id,
                             [author |-> u,
                              is_published |-> posts[post_id].is_published,
                              category |-> form.category,
                              pub_date |-> form.pub_date]),
                        comments, users, nextPostId, nextCommentId))
    ELSE Only("render_form")

\* the rows that go with a deleted post: a Comment requires its Post
CommentsOfPost(post_id) == {c \in DOMAIN comments : comments[c].post = post_id}

\* mutant: the post deleted by the confirmation GET as well
post_delete_OnGet(u, post_id, method) ==
    IF ~is_authenticated(u) THEN Only("login_required")
    ELSE IF post_id \notin DOMAIN posts THEN Only("not_found")
    ELSE IF posts[post_id].author # u THEN Only("redirect_detail")
    ELSE Response("redirect_profile",
                  Store(Without(posts, post_id),
                        [c \in (DOMAIN comments) \ CommentsOfPost(post_id) |-> comments[c]],
                        users, nextPostId, nextCommentId))

post_delete(u, post_id, method) ==
    IF ~is_authenticated(u) THEN Only("login_required")
    ELSE IF post_id \notin DOMAIN posts THEN Only("not_found")
    ELSE IF posts[post_id].author # u THEN Only("redirect_detail")
    ELSE IF method = "POST"
    THEN Response("redirect_profile",
                  Store(Without(posts, post_id),
                        [c \in (DOMAIN comments) \ CommentsOfPost(post_id) |-> comments[c]],
                        users, nextPostId, nextCommentId))
    ELSE Only("render_form")

\* mutant: the comment saved without form.is_valid()
add_comment_NoValidation(u, post_id, method, text) ==
    IF ~is_authenticated(u) THEN Only("login_required")
    ELSE IF post_id \notin DOMAIN posts THEN Only("not_found")
    ELSE Response("redirect_detail",
                  Store(posts,
                        With(comments, nextCommentId,
                             [post |-> post_id, author |-> u,
                              text |-> IF method = "POST" THEN text ELSE ""]),
                        users, nextPostId, nextCommentId + 1))

\* mutant: the post looked up among the published posts only
add_comment_Gated(u, post_id, method, text) ==
    IF ~is_authenticated(u) THEN Only("login_required")
    ELSE IF post_id \notin DOMAIN posts THEN Only("not_found")
    ELSE IF ~posts[post_id].is_published THEN Only("not_found")
    ELSE IF CommentForm_is_valid(IF method = "POST" THEN text ELSE "")
    THEN Response("redirect_detail",
                  Store(posts,
                        With(comments, nextCommentId,
                             [post |-> post_id, author |-> u, text |-> text]),
                        users, nextPostId, nextCommentId + 1))
    ELSE Only("redirect_detail")

\* CommentForm(request.POST): a request that is not a POST carries no text
add_comment(u, post_id, method, text) ==
    IF ~is_authenticated(u) THEN Only("login_required")
    ELSE IF post_id \notin DOMAIN posts THEN Only("not_found")
    ELSE IF CommentForm_is_valid(IF method = "POST" THEN text ELSE "")
    THEN Response("redirect_detail",
                  Store(posts,
                        With(comments, nextCommentId,
                             [post |-> post_id, author |-> u, text |-> text]),
                        users, nextPostId, nextCommentId + 1))
    ELSE Only("redirect_detail")

\* get_object_or_404(Comment, id=comment_id, post_id=post_id)
comment_found(post_id, comment_id) ==
    comment_id \in DOMAIN comments /\ comments[comment_id].post = post_id

edit_comment(u, post_id, comment_id, method, text) ==
    IF ~is_authenticated(u) THEN Only("login_required")
    ELSE IF ~comment_found(post_id, comment_id) THEN Only("not_found")
    ELSE IF comments[comment_id].author # u THEN Only("redirect_detail")
    ELSE IF method = "POST" /\ CommentForm_is_valid(text)
    THEN Response("redirect_detail",
                  Store(posts,
                        With(comments, comment_id,
                             [post |-> comments[comment_id].post,
                              author |-> comments[comment_id].author,
                              text |-> text]),
                        users, nextPostId, nextCommentId))
    ELSE Only("render_form")

\* mutant: the comment deleted without the author check
delete_comment_NoGate(u, post_id, comment_id, method) ==
    IF ~is_authenticated(u) THEN Only("login_required")
    ELSE IF ~comment_found(post_id, comment_id) THEN Only("not_found")
    ELSE IF method = "POST"
    THEN Response("redirect_detail",
                  Store(posts, Without(comments, comment_id), users,
                        nextPostId, nextCommentId))
    ELSE Only("render_confirm")

delete_comment(u, post_id, comment_id, method) ==
    IF ~is_authenticated(u) THEN Only("login_required")
    ELSE IF ~comment_found(post_id, comment_id) THEN Only("not_found")
    ELSE IF comments[comment_id].author # u THEN Only("redirect_detail")
    ELSE IF method = "POST"
    THEN Response("redirect_detail",
                  Store(posts, Without(comments, comment_id), users,
                        nextPostId, nextCommentId))
    ELSE Only("render_confirm")

\* the key the store gives a new User row
NewUserId == Cardinality(DOMAIN users) + 1

registration(method, form) ==
    IF method = "POST" /\ UserRegistrationForm_is_valid(form)
    THEN Response("redirect_login",
                  Store(posts, comments,
                        With(users, NewUserId, [username |-> form.username]),
                        nextPostId, nextCommentId))
    ELSE Only("render_form")

\* ------------------------------------------------- category administration
\* Categories are maintained outside the views.  Unpublishing clears the
\* flag; deleting the row leaves its posts in place without a category.
set_category_published(slug, flag) ==
    With(categories, slug, [is_published |-> flag])

PostsOfCategory(slug) == {p \in DOMAIN posts : posts[p].category = slug}

delete_category_posts(slug) ==
    [p \in DOMAIN posts |->
        IF posts[p].category = slug
        THEN [posts[p] EXCEPT !.category = None]
        ELSE posts[p]]

\* ------------------------------------------------------------ the machine
Requesters == (DOMAIN users) \cup {Anon}

Init ==
    /\ users = [u \in {} |-> [username |-> ""]]
    /\ categories = [s \in Slugs |-> [is_published |-> TRUE]]
    /\ posts = [p \in {} |-> [author |-> Anon, is_published |-> FALSE,
                              category |-> None, pub_date |-> 0]]
    /\ comments = [c \in {} |-> [post |-> AbsentId, author |-> Anon, text |-> ""]]
    /\ nextPostId = 1
    /\ nextCommentId = 1
    /\ creator = [p \in {} |-> Anon]
    /\ orphaned = {}

\* the store after a write view answered r to requester u
Apply(u, r) ==
    /\ r.store.nextPostId <= MaxPosts + 1
    /\ r.store.nextCommentId <= MaxComments + 1
    /\ Cardinality(DOMAIN r.store.users) <= MaxUsers
    /\ posts' = r.store.posts
    /\ comments' = r.store.comments
    /\ users' = r.store.users
    /\ nextPostId' = r.store.nextPostId
    /\ nextCommentId' = r.store.nextCommentId
    /\ creator' = [p \in DOMAIN r.store.posts |->
                      IF p \in DOMAIN creator THEN creator[p] ELSE u]
    /\ orphaned' = {p \in orphaned \cap DOMAIN r.store.posts :
                      r.store.posts[p].category = None}
    /\ UNCHANGED categories

\* a read view answered: every outcome leaves the store alone
Answer(response) ==
    /\ response.outcome \in {"render_index", "render_detail", "render_category",
                             "render_profile", "not_found"}
    /\ UNCHANGED vars

Index ==
    \E now \in Time : Answer(index(now))

PostDetail ==
    \E u \in Requesters, id \in PostIds, now \in Time :
        Answer(post_detail(u, id, now))

CategoryPosts ==
    \E slug \in Slugs \cup {UnknownSlug}, now \in Time :
        Answer(category_posts(slug, now))

Profile ==
    \E username \in Names : Answer(profile(username))

EditProfile ==
    \E u \in Requesters, method \in Methods, username \in Names \cup {""} :
        Apply(u, edit_profile(u, method, username))

PostCreate ==
    \E u \in Requesters, method \in Methods, form \in PostForms,
       default_published \in BOOLEAN :
        Apply(u, post_create(u, method, form, default_published))

PostEdit ==
    \E u \in Requesters, post_id \in PostIds, method \in Methods, form \in PostForms :
        Apply(u, post_edit(u, post_id, method, form))

PostDelete ==
    \E u \in Requesters, post_id \in PostIds, method \in Methods :
        Apply(u, post_delete(u, post_id, method))

AddComment ==
    \E u \in Requesters, post_id \in PostIds, method \in Methods,
       text \in CommentTexts :
        Apply(u, add_comment(u, post_id, method, text))

EditComment ==
    \E u \in Requesters, post_id \in PostIds, comment_id \in CommentIds,
       method \in Methods, text \in CommentTexts :
        Apply(u, edit_comment(u, post_id, comment_id, method, text))

DeleteComment ==
    \E u \in Requesters, post_id \in PostIds, comment_id \in CommentIds,
       method \in Methods :
        Apply(u, delete_comment(u, post_id, comment_id, method))

Registration ==
    \E method \in Methods, form \in RegistrationForms :
        Apply(Anon, registration(method, form))

SetCategoryPublished ==
    \E slug \in DOMAIN categories, flag \in BOOLEAN :
        /\ categories' = set_category_published(slug, flag)
        /\ UNCHANGED <<users, posts, comments, nextPostId, nextCommentId,
                       creator, orphaned>>

DeleteCategory ==
    \E slug \in DOMAIN categories :
        /\ categories' = Without(categories, slug)
        /\ posts' = delete_category_posts(slug)
        /\ orphaned' = orphaned \cup PostsOfCategory(slug)
        /\ UNCHANGED <<users, comments, nextPostId, nextCommentId, creator>>

Next ==
    \/ Index
    \/ PostDetail
    \/ CategoryPosts
    \/ Profile
    \/ EditProfile
    \/ PostCreate
    \/ PostEdit
    \/ PostDelete
    \/ AddComment
    \/ EditComment
    \/ DeleteComment
    \/ Registration
    \/ SetCategoryPublished
    \/ DeleteCategory

Spec == Init /\ [][Next]_vars

\* ------------------------------------------------------------ properties
\* the visibility predicate of the data model: published flag, published
\* category if there is one, publication date reached
Visible(p, now) ==
    /\ posts[p].is_published
    /\ (posts[p].category # None => categories[posts[p].category].is_published)
    /\ posts[p].pub_date <= now

\* C1: a post is in the home feed exactly when it is published, has a
\* category, that category is published, and its pub_date is not after now.
C1_HomeFeed ==
    \A now \in Time, p \in PostIds :
        p \in index(now).page <=>
            /\ p \in DOMAIN posts
            /\ posts[p].is_published
            /\ posts[p].category # None
            /\ categories[posts[p].category].is_published
            /\ posts[p].pub_date <= now

\* a request time at which the feed shows one post and withholds another
C1_Witness ==
    \E now \in Time, p \in DOMAIN posts, q \in DOMAIN posts :
        p \in index(now).page /\ q \notin index(now).page

\* C2: the single-post view serves an existing post exactly to its
\* authenticated author or when the visibility predicate holds; every other
\* request, and every request for an id without a post, is not-found.
C2_PostDetailGate ==
    \A u \in Requesters, id \in PostIds \cup {AbsentId}, now \in Time :
        LET r == post_detail(u, id, now)
            served == r.outcome = "render_detail" /\ r.post = id
        IN  /\ r.outcome \in {"render_detail", "not_found"}
            /\ served \/ r.outcome = "not_found"
            /\ id \notin DOMAIN posts => r.outcome = "not_found"
            /\ id \in DOMAIN posts =>
                 (served <=> \/ (u # Anon /\ u = posts[id].author)
                             \/ Visible(id, now))

\* a post its author is served and an anonymous requester is refused
C2_Witness ==
    \E id \in DOMAIN posts, now \in Time :
        /\ post_detail(posts[id].author, id, now).outcome = "render_detail"
        /\ post_detail(Anon, id, now).outcome = "not_found"

\* C3: a GET or POST by an authenticated user who is not the author, sent
\* to the edit or delete endpoint of a post or of a comment, is answered
\* with the redirect to the post view and leaves the whole store as it was.
C3_OwnershipGate ==
    \A u \in DOMAIN users, method \in Methods :
        /\ \A p \in DOMAIN posts :
             posts[p].author # u =>
               /\ \A form \in PostForms :
                    post_edit(u, p, method, form) = Only("redirect_detail")
               /\ post_delete(u, p, method) = Only("redirect_detail")
        /\ \A c \in DOMAIN comments :
             comments[c].author # u =>
               /\ \A text \in CommentTexts :
                    edit_comment(u, comments[c].post, c, method, text)
                        = Only("redirect_detail")
               /\ delete_comment(u, comments[c].post, c, method)
                        = Only("redirect_detail")

\* a post and a comment, and a registered user who wrote neither and is
\* turned away from deleting them
C3_Witness ==
    \E u \in DOMAIN users, p \in DOMAIN posts, c \in DOMAIN comments :
        /\ posts[p].author # u
        /\ comments[c].author # u
        /\ post_delete(u, p, "POST").outcome = "redirect_detail"
        /\ delete_comment(u, comments[c].post, c, "POST").outcome = "redirect_detail"

\* C4: every stored post has the requester of its creating request as
\* author; a create by u stores author u whatever author the form carries;
\* no edit request changes the author of the post it is sent for.
C4_AuthorPinned ==
    /\ \A p \in DOMAIN posts : posts[p].author = creator[p]
    /\ \A u \in DOMAIN users, method \in Methods, form \in PostForms,
          d \in BOOLEAN :
         LET r == post_create(u, method, form, d)
         IN  /\ \A p \in DOMAIN posts :
                  p \in DOMAIN r.store.posts /\ r.store.posts[p] = posts[p]
             /\ \A p \in (DOMAIN r.store.posts) \ DOMAIN posts :
                  r.store.posts[p].author = u
    /\ \A u \in Requesters, p \in DOMAIN posts, method \in Methods,
          form \in PostForms :
         LET r == post_edit(u, p, method, form)
         IN  p \in DOMAIN r.store.posts
             /\ r.store.posts[p].author = posts[p].author

\* a stored post whose creating form could have named another registered
\* user as author
C4_Witness ==
    \E p \in DOMAIN posts, u \in DOMAIN users, form \in PostForms :
        /\ u # posts[p].author
        /\ creator[p] = posts[p].author
        /\ form.author = u
        /\ post_create(posts[p].author, "POST", form, TRUE).outcome = "redirect_profile"

\* a post of a category that is there and unpublished
InUnpublishedCategory(p) ==
    posts[p].category # None /\ ~categories[posts[p].category].is_published

\* no feed shows p at any request time
InNoFeed(p) ==
    \A now \in Time :
        /\ p \notin index(now).page
        /\ \A slug \in Slugs \cup {UnknownSlug} :
             p \notin category_posts(slug, now).page

\* the single-post view refuses p to everyone but its author
RefusedToOthers(p) ==
    \A now \in Time, u \in Requesters :
        u # posts[p].author => post_detail(u, p, now).outcome = "not_found"

\* C5 as stated: once its category is unpublished or deleted, a post is in
\* no feed and the single-post view serves it to nobody but its author.
C5_Original ==
    \A p \in DOMAIN posts :
        (InUnpublishedCategory(p) \/ p \in orphaned) =>
            InNoFeed(p) /\ RefusedToOthers(p)

\* C5 as amended: a post whose category is unpublished or deleted is in no
\* feed; while the category is there and unpublished the single-post view
\* refuses the post to everyone but its author; a post left without a
\* category by the deletion is served to a requester who is not its author
\* exactly when it is published and its pub_date is not after now.
C5_CategoryGate ==
    \A p \in DOMAIN posts :
        /\ (InUnpublishedCategory(p) \/ p \in orphaned) => InNoFeed(p)
        /\ InUnpublishedCategory(p) => RefusedToOthers(p)
        /\ p \in orphaned =>
             \A now \in Time, u \in Requesters :
                u # posts[p].author =>
                   (post_detail(u, p, now).outcome = "render_detail"
                       <=> posts[p].is_published /\ posts[p].pub_date <= now)

\* a published, due post whose category was deleted: out of the home feed,
\* served by the single-post view to an anonymous requester
C5_Witness ==
    \E p \in orphaned, now \in Time :
        /\ posts[p].is_published
        /\ posts[p].pub_date <= now
        /\ p \notin index(now).page
        /\ post_detail(Anon, p, now).outcome = "render_detail"

\* C6: the category feed of a slug is not-found when no category carries
\* the slug or the category is unpublished; otherwise it holds exactly the
\* published posts of that category whose pub_date is not after now.
C6_CategoryFeed ==
    \A slug \in Slugs \cup {UnknownSlug}, now \in Time :
        LET r == category_posts(slug, now)
        IN  IF slug \notin DOMAIN categories THEN r.outcome = "not_found"
            ELSE IF ~categories[slug].is_published THEN r.outcome = "not_found"
            ELSE /\ r.outcome = "render_category"
                 /\ \A p \in PostIds :
                      p \in r.page <=>
                         /\ p \in DOMAIN posts
                         /\ posts[p].category = slug
                         /\ posts[p].is_published
                         /\ posts[p].pub_date <= now

\* an unpublished category that still has a published, due post: its feed
\* is not-found
C6_Witness ==
    \E slug \in DOMAIN categories, p \in DOMAIN posts, now \in Time :
        /\ ~categories[slug].is_published
        /\ posts[p].category = slug
        /\ posts[p].is_published
        /\ posts[p].pub_date <= now
        /\ category_posts(slug, now).outcome = "not_found"

Hidden(u, n, now) ==
    /\ n \in DOMAIN posts
    /\ u # posts[n].author
    /\ ~Visible(n, now)

\* C8 as stated: for a post that is there but not visible to the requester,
\* post detail, edit post, delete post and add comment answer as they do
\* for an id without a post.
C8_Original ==
    \A u \in Requesters, n \in PostIds, now \in Time :
        Hidden(u, n, now) =>
           /\ post_detail(u, n, now).outcome
                    = post_detail(u, AbsentId, now).outcome
           /\ \A method \in Methods :
                /\ \A form \in PostForms :
                     post_edit(u, n, method, form).outcome
                         = post_edit(u, AbsentId, method, form).outcome
                /\ post_delete(u, n, method).outcome
                         = post_delete(u, AbsentId, method).outcome
                /\ \A text \in CommentTexts :
                     add_comment(u, n, method, text).outcome
                         = add_comment(u, AbsentId, method, text).outcome

\* C8 as amended: for a post that is there but not visible to the
\* requester, post detail answers not-found as it does for an id without a
\* post, and an anonymous requester is sent to the login page by edit post,
\* delete post and add comment in both cases; to an authenticated requester
\* edit post, delete post and add comment answer with the redirect to the
\* post view where they answer not-found for an id without a post.
C8_DetailIndistinguishable ==
    \A u \in Requesters, n \in PostIds, now \in Time :
        Hidden(u, n, now) =>
           /\ post_detail(u, n, now).outcome = "not_found"
           /\ post_detail(u, AbsentId, now) = post_detail(u, n, now)
           /\ \A method \in Methods, form \in PostForms, text \in CommentTexts :
                LET there == {post_edit(u, n, method, form).outcome,
                              post_delete(u, n, method).outcome,
                              add_comment(u, n, method, text).outcome}
                    absent == {post_edit(u, AbsentId, method, form).outcome,
                               post_delete(u, AbsentId, method).outcome,
                               add_comment(u, AbsentId, method, text).outcome}
                IN  IF u = Anon
                    THEN there = {"login_required"} /\ absent = {"login_required"}
                    ELSE there = {"redirect_detail"} /\ absent = {"not_found"}

\* a post hidden from a registered user who is not its author
C8_Witness ==
    \E u \in DOMAIN users, n \in DOMAIN posts, now \in Time :
        /\ Hidden(u, n, now)
        /\ post_detail(u, n, now).outcome = "not_found"
        /\ post_edit(u, n, "GET", [pub_date |-> 0, category |-> None, author |-> u]).outcome
               = "redirect_detail"

\* a GET to a delete endpoint leaves the store alone, whoever sends it
GetRemovesNothing ==
    \A u \in Requesters, p \in PostIds \cup {AbsentId} :
        /\ post_delete(u, p, "GET").store = Current
        /\ \A c \in CommentIds : delete_comment(u, p, c, "GET").store = Current

\* the author's delete of a comment under another post's URL is not-found
WrongParentNotFound ==
    \A c \in DOMAIN comments, p \in PostIds \cup {AbsentId}, method \in Methods :
        p # comments[c].post =>
            delete_comment(comments[c].author, p, c, method) = Only("not_found")

\* a step that removes a post is its author's POST to its delete endpoint
PostRemovedByOwnDelete ==
    \A p \in DOMAIN posts :
        p \notin DOMAIN posts' =>
            LET r == post_delete(posts[p].author, p, "POST")
            IN  posts' = r.store.posts /\ comments' = r.store.comments

\* a step that removes comment c is its author's POST to its delete endpoint
CommentRemovedByOwnDelete(c) ==
    LET r == delete_comment(comments[c].author, comments[c].post, c, "POST")
    IN  comments' = r.store.comments /\ posts' = posts

\* every lookup of an id that was handed out and has no row is not-found
RemovedNotFound ==
    /\ \A p \in PostIds :
         (p < nextPostId /\ p \notin DOMAIN posts) =>
            \A u \in DOMAIN users, now \in Time, method \in Methods :
                 /\ post_detail(u, p, now).outcome = "not_found"
                 /\ post_delete(u, p, method) = Only("not_found")
    /\ \A c \in CommentIds :
         (c < nextCommentId /\ c \notin DOMAIN comments) =>
            \A u \in DOMAIN users, p \in PostIds, method \in Methods :
                 delete_comment(u, p, c, method) = Only("not_found")

\* an id that was handed out and has no row has no row in the next state
RemovedStaysAbsent ==
    /\ \A p \in PostIds :
         (p < nextPostId /\ p \notin DOMAIN posts) => p \notin DOMAIN posts'
    /\ \A c \in CommentIds :
         (c < nextCommentId /\ c \notin DOMAIN comments) => c \notin DOMAIN comments'

C10_AddCommentUngated ==
    \A u \in DOMAIN users, text \in CommentTexts \ {""} :
        /\ \A p \in DOMAIN posts :
             /\ nextCommentId \notin DOMAIN comments
             /\ add_comment(u, p, "POST", text)
                  = Response("redirect_detail",
                             Store(posts,
                                   With(comments, nextCommentId,
                                        [post |-> p, author |-> u, text |-> text]),
                                   users, nextPostId, nextCommentId + 1))
        /\ \A p \in (PostIds \cup {AbsentId}) \ DOMAIN posts, method \in Methods :
             add_comment(u, p, method, text) = Only("not_found")

\* a stored comment of a user on a post the single-post view refuses them
C10_Witness ==
    \E c \in DOMAIN comments :
        /\ comments[c].author # posts[comments[c].post].author
        /\ \A now \in Time :
             /\ Hidden(comments[c].author, comments[c].post, now)
             /\ post_detail(comments[c].author, comments[c].post, now).outcome
                    = "not_found"

====
